---- MODULE Spec2Model ----
(***************************************************************************)
(* Model of the validation-error contract of src/main.py:                  *)
(*   loc_to_field                  the location normalizer (a pure function)*)
(*   validation_exception_handler  the responder that builds the envelope   *)
(*                                                                         *)
(* Python values are modelled as follows.                                  *)
(*   - a location segment is a tagged record: a str, an int or None;       *)
(*   - a str is a TLA+ string, so str.join is string concatenation;        *)
(*   - an error dict is a function whose DOMAIN is the set of keys the     *)
(*     dict holds, so dict.get(key, default) is a test on the DOMAIN;      *)
(*   - the value under "loc" is a tagged record: a list of segments, or    *)
(*     None (the key is there and holds no sequence).                      *)
(***************************************************************************)
EXTENDS Integers, Sequences, FiniteSets, TLC

VARIABLES
    loc,        \* normalizer run: the argument of loc_to_field
    field,      \* normalizer run: the returned string
    called,     \* normalizer run: whether loc_to_field has returned
    errors,     \* per request: exc.errors(), the batch of raw error dicts
    pc,         \* per request: the handler's position
    i,          \* per request: index of the next error the for-loop takes
    details,    \* per frame: the handler's local list `details`
    response    \* per request: the JSONResponse the handler returned

vars == <<loc, field, called, errors, pc, i, details, response>>

(***************************************************************************)
(* Bounds of the model.                                                    *)
(***************************************************************************)
MaxLocLen == 4
MaxBatch == 2

(***************************************************************************)
(* Location segments.                                                      *)
(***************************************************************************)
NoneSeg == [tag |-> "none", s |-> "", n |-> 0]

StrSeg(x) == [tag |-> "str", s |-> x, n |-> 0]

IntSeg(k) == [tag |-> "int", s |-> "", n |-> k]

SegStrings == {"body", "query", "items", "name", ""}

SegInts == {0, 11}

Segments == {NoneSeg} \cup {StrSeg(x) : x \in SegStrings} \cup {IntSeg(k) : k \in SegInts}

SeqsUpTo(S, n) == UNION {[1..k -> S] : k \in 0..n}

Locations == SeqsUpTo(Segments, MaxLocLen)

(***************************************************************************)
(* str(x) and ".".join(...)                                                *)
(***************************************************************************)
Digit(d) == <<"0", "1", "2", "3", "4", "5", "6", "7", "8", "9">>[d + 1]

RECURSIVE NatToStr(_)
NatToStr(k) == IF k < 10 THEN Digit(k) ELSE NatToStr(k \div 10) \o Digit(k % 10)

\* str(x) of a segment: a str is itself, an int is its decimal form, None is "None"
str(x) ==
    CASE x.tag = "str" -> x.s
      [] x.tag = "int" -> IF x.n < 0 THEN "-" \o NatToStr(-x.n) ELSE NatToStr(x.n)
      [] OTHER -> "None"

RECURSIVE join(_, _)
join(sep, xs) ==
    IF xs = <<>> THEN ""
    ELSE IF Len(xs) = 1 THEN str(xs[1])
    ELSE str(xs[1]) \o sep \o join(sep, Tail(xs))

(***************************************************************************)
(* loc_to_field                                                            *)
(***************************************************************************)
\* [x for x in loc if x is not None]
loc_clean_keep_none(l) == l

loc_clean(l) == SelectSeq(l, LAMBDA x : x.tag # "none")

\* loc_clean[0] == "body"
is_body_any_str(x) == x.tag = "str"

is_body(x) == x.tag = "str" /\ x.s = "body"

\* all(isinstance(x, int) for x in rest)
all_int_any(rest) == \E k \in 1..Len(rest) : rest[k].tag = "int"

all_int_single(rest) == Len(rest) = 1 /\ rest[1].tag = "int"

all_int(rest) == \A k \in 1..Len(rest) : rest[k].tag = "int"

loc_to_field_no_single(l) ==
    IF l = <<>> THEN ""
    ELSE LET c == loc_clean(l) IN
         IF c = <<>> THEN ""
         ELSE IF is_body(c[1])
              THEN LET rest == Tail(c) IN
                   IF rest # <<>> /\ all_int(rest) THEN "body"
                   ELSE join(".", rest)
              ELSE join(".", c)

loc_to_field(l) ==
    IF l = <<>> THEN ""
    ELSE LET c == loc_clean(l) IN
         IF c = <<>> THEN ""
         ELSE IF is_body(c[1])
              THEN IF Len(c) = 1 THEN "body"
                   ELSE LET rest == Tail(c) IN
                        IF rest # <<>> /\ all_int(rest) THEN "body"
                        ELSE join(".", rest)
              ELSE join(".", c)

(***************************************************************************)
(* Raw error dicts, as exc.errors() hands them to the handler.             *)
(***************************************************************************)
\* the value under "loc": a sequence of segments, or None
ListLoc(l) == [kind |-> "list", items |-> l]

NoneLoc == [kind |-> "none", items |-> <<>>]

Keys == {"loc", "msg", "type"}

\* every dict that holds a subset of the keys, with values from the given sets
Dicts(locs, msgs, types) ==
    {[k \in K |-> d[k]] : d \in [loc : locs, msg : msgs, type : types], K \in SUBSET Keys}

RespLocs ==
    { <<>>,
      <<NoneSeg>>,
      <<StrSeg("body")>>,
      <<StrSeg("body"), IntSeg(11)>>,
      <<StrSeg("body"), StrSeg("name")>>,
      <<StrSeg("query"), StrSeg("name")>> }

RawErrors == Dicts({ListLoc(l) : l \in RespLocs} \cup {NoneLoc}, {"m1", "m2"}, {"t1"})

ConcErrors ==
    { [loc |-> ListLoc(<<StrSeg("body"), StrSeg("name")>>), msg |-> "m1", type |-> "t1"],
      [loc |-> ListLoc(<<StrSeg("body"), StrSeg("name")>>), msg |-> "m2"],
      [loc |-> ListLoc(<<StrSeg("query"), StrSeg("name")>>), msg |-> "m1", type |-> "t1"],
      [msg |-> "m2", type |-> "t1"],
      [loc |-> NoneLoc, msg |-> "m1"] }

(***************************************************************************)
(* validation_exception_handler                                            *)
(***************************************************************************)
\* e.get(key, default)
dict_get(e, key, default) == IF key \in DOMAIN e THEN e[key] ELSE default

\* list(x) raises TypeError unless x is iterable
list_raises(x) == x.kind # "list"

\* the dict appended to details for the raw error e
make_detail_msg_scan(e) ==
    [field |-> IF dict_get(e, "msg", "") = "m2" THEN "body"
               ELSE loc_to_field(dict_get(e, "loc", ListLoc(<<>>)).items),
     message |-> dict_get(e, "msg", ""),
     type |-> dict_get(e, "type", "")]

make_detail_type_as_message(e) ==
    [field |-> loc_to_field(dict_get(e, "loc", ListLoc(<<>>)).items),
     message |-> dict_get(e, "type", ""),
     type |-> dict_get(e, "type", "")]

make_detail(e) ==
    [field |-> loc_to_field(dict_get(e, "loc", ListLoc(<<>>)).items),
     message |-> dict_get(e, "msg", ""),
     type |-> dict_get(e, "type", "")]

\* details.append(d)
append_front(ds, d) == <<d>> \o ds

append(ds, d) == Append(ds, d)

\* JSONResponse(status_code=..., content={"error": {...}})
JSONResponse(ds) ==
    [status_code |-> 422,
     content |-> [error |-> [code |-> 422, message |-> "Validation Error", details |-> ds]]]

\* `details` is a local of the invocation: each request's frame holds its own
frame_shared(r) == 1

frame(r) == r

Req == {1, 2}

NoResponse == [status_code |-> 0, content |-> [error |-> [code |-> 0, message |-> "", details |-> <<>>]]]

\* details = []
Enter(r) ==
    /\ pc[r] = "start"
    /\ details' = [details EXCEPT ![frame(r)] = <<>>]
    /\ i' = [i EXCEPT ![r] = 1]
    /\ pc' = [pc EXCEPT ![r] = "loop"]
    /\ UNCHANGED <<loc, field, called, errors, response>>

\* one pass of `for e in exc.errors():`
Iterate(r) ==
    /\ pc[r] = "loop"
    /\ i[r] <= Len(errors[r])
    /\ LET e == errors[r][i[r]] IN
       IF list_raises(dict_get(e, "loc", ListLoc(<<>>)))
       THEN /\ pc' = [pc EXCEPT ![r] = "fault"]
            /\ UNCHANGED <<details, i>>
       ELSE /\ details' = [details EXCEPT ![frame(r)] = append(@, make_detail(e))]
            /\ i' = [i EXCEPT ![r] = @ + 1]
            /\ UNCHANGED pc
    /\ UNCHANGED <<loc, field, called, errors, response>>

\* return JSONResponse(...)
Return(r) ==
    /\ pc[r] = "loop"
    /\ i[r] > Len(errors[r])
    /\ response' = [response EXCEPT ![r] = JSONResponse(details[frame(r)])]
    /\ pc' = [pc EXCEPT ![r] = "done"]
    /\ UNCHANGED <<loc, field, called, errors, i, details>>

NormalizerIdle ==
    /\ loc = <<>>
    /\ field = ""
    /\ called = FALSE

HandlerFresh ==
    /\ i = [r \in Req |-> 1]
    /\ details = [r \in Req |-> <<>>]
    /\ response = [r \in Req |-> NoResponse]

\* one failed request; the other slot never receives one
Init ==
    /\ NormalizerIdle
    /\ HandlerFresh
    /\ \E b \in SeqsUpTo(RawErrors, MaxBatch) : errors = [r \in Req |-> IF r = 1 THEN b ELSE <<>>]
    /\ pc = [r \in Req |-> IF r = 1 THEN "start" ELSE "idle"]

\* two failed requests handled at the same time
InitConc ==
    /\ NormalizerIdle
    /\ HandlerFresh
    /\ errors \in [Req -> SeqsUpTo(ConcErrors, MaxBatch)]
    /\ pc = [r \in Req |-> "start"]

Next == \E r \in Req : Enter(r) \/ Iterate(r) \/ Return(r)

Spec == Init /\ [][Next]_vars

SpecConc == InitConc /\ [][Next]_vars

(***************************************************************************)
(* The normalizer run: one call of loc_to_field on a drawn location.       *)
(***************************************************************************)
InitNorm ==
    /\ loc \in Locations
    /\ field = ""
    /\ called = FALSE
    /\ HandlerFresh
    /\ errors = [r \in Req |-> <<>>]
    /\ pc = [r \in Req |-> "idle"]

Normalize ==
    /\ ~called
    /\ field' = loc_to_field(loc)
    /\ called' = TRUE
    /\ UNCHANGED <<loc, errors, pc, i, details, response>>

NextNorm == Normalize

SpecNorm == InitNorm /\ [][NextNorm]_vars

(***************************************************************************)
(* What the contract expects of a dotted path, stated without the model's  *)
(* join and str: the path is built from the left, one segment at a time.   *)
(***************************************************************************)
SegText(x) ==
    IF x.tag = "str" THEN x.s
    ELSE IF x.n = 0 THEN "0"
    ELSE IF x.n = 11 THEN "11"
    ELSE "?"

RECURSIVE DotPath(_)
DotPath(xs) ==
    IF Len(xs) = 1 THEN SegText(xs[1])
    ELSE DotPath(SubSeq(xs, 1, Len(xs) - 1)) \o "." \o SegText(xs[Len(xs)])

NonNull(l) == SelectSeq(l, LAMBDA x : x # NoneSeg)

IsInt(x) == x.tag = "int"

StartsWithBody(c) == c # <<>> /\ c[1] = StrSeg("body")

\* C1: when the null-filtered location starts with "body" and at least one
\* further segment is not an integer, the field is exactly the further
\* segments in string form joined with "." in their order, "body" dropped.
C1_BodyPathStripped ==
    called =>
        LET c == NonNull(loc) IN
        /\ (StartsWithBody(c) /\ (\E k \in 2..Len(c) : ~IsInt(c[k])))
              => field = DotPath(Tail(c))
        /\ loc = <<StrSeg("body"), StrSeg("items"), IntSeg(0), StrSeg("name")>>
              => field = "items.0.name"
        /\ loc = <<StrSeg("body"), IntSeg(0), StrSeg("name")>> => field = "0.name"
        /\ loc = <<StrSeg("body"), StrSeg("name")>> => field = "name"

C1_Witness ==
    /\ called
    /\ loc = <<StrSeg("body"), StrSeg("items"), IntSeg(0), StrSeg("name")>>
    /\ field = "items.0.name"

\* C2: when the null-filtered location starts with "body" and every further
\* segment (zero, one or more of them) is an integer, the field is "body".
C2_BodyDecodePosition ==
    called =>
        LET c == NonNull(loc) IN
        (StartsWithBody(c) /\ (\A k \in 2..Len(c) : IsInt(c[k]))) => field = "body"

C2_Witness ==
    /\ called
    /\ loc = <<StrSeg("body"), IntSeg(0), IntSeg(11)>>
    /\ field = "body"

\* C3: when the null-filtered location is non-empty and its first segment is
\* not "body", the field is all cleaned segments, the first included, joined
\* with "."; trailing integers are kept.
C3_NonBodyKeepsPrefix ==
    called =>
        LET c == NonNull(loc) IN
        /\ (c # <<>> /\ ~StartsWithBody(c)) => field = DotPath(c)
        /\ loc = <<StrSeg("query"), IntSeg(0)>> => field = "query.0"
        /\ loc = <<StrSeg("query"), StrSeg("name")>> => field = "query.name"

C3_Witness ==
    /\ called
    /\ loc = <<StrSeg("query"), IntSeg(0)>>
    /\ field = "query.0"

\* C4: null segments are filtered before any other rule: the field of a
\* location equals the field of the same location with its nulls removed,
\* and an empty or all-null location gives the empty string.
C4_NullsFilteredFirst ==
    called =>
        /\ field = loc_to_field(NonNull(loc))
        /\ NonNull(loc) = <<>> => field = ""

C4_Witness ==
    /\ called
    /\ loc = <<NoneSeg, StrSeg("body"), NoneSeg, StrSeg("name")>>
    /\ field = "name"

\* C10: the field is empty only for an empty or all-null location: a
\* null-filtered location that is non-empty and whose string segments are all
\* non-empty gives a non-empty field.
C10_EmptyOnlyForNoLocation ==
    called =>
        LET c == NonNull(loc) IN
        /\ (c # <<>> /\ (\A k \in 1..Len(c) : c[k].tag = "str" => c[k].s # ""))
              => field # ""
        /\ c = <<>> => field = ""

C10_Witness ==
    /\ called
    /\ loc = <<NoneSeg, StrSeg("body")>>
    /\ field = "body"

(***************************************************************************)
(* Claims about the responder.                                             *)
(***************************************************************************)
Done(r) == pc[r] = "done"

DetailsOf(r) == response[r].content.error.details

\* the location sequence a raw error carries (none when the key is absent)
LocOf(e) == IF "loc" \in DOMAIN e THEN e["loc"].items ELSE <<>>

\* C5: the envelope returned for a batch of N raw errors has status 422,
\* error.code 422, error.message "Validation Error" and N details, the k-th
\* holding the field that normalize gives for the k-th raw error's location.
C5_EnvelopeShapeAndOrder ==
    \A r \in Req :
        Done(r) =>
            /\ response[r].status_code = 422
            /\ response[r].content.error.code = 422
            /\ response[r].content.error.message = "Validation Error"
            /\ Len(DetailsOf(r)) = Len(errors[r])
            /\ \A k \in 1..Len(errors[r]) :
                  DetailsOf(r)[k].field = loc_to_field(LocOf(errors[r][k]))

C5_Witness ==
    /\ Done(1)
    /\ Len(errors[1]) = 2
    /\ LocOf(errors[1][1]) = <<StrSeg("body"), StrSeg("name")>>
    /\ LocOf(errors[1][2]) = <<StrSeg("body"), IntSeg(11)>>
    /\ DetailsOf(1)[1].field = "name"
    /\ DetailsOf(1)[2].field = "body"

\* C6: every detail has exactly the keys field, message and type, each a
\* string; message and type are the raw error's msg and type when it has
\* them and the empty string when it does not.
C6_DetailKeysAndPassThrough ==
    \A r \in Req :
        Done(r) =>
            \A k \in 1..Len(DetailsOf(r)) :
                LET d == DetailsOf(r)[k]
                    e == errors[r][k]
                IN /\ DOMAIN d = {"field", "message", "type"}
                   /\ d.field \in STRING /\ d.message \in STRING /\ d.type \in STRING
                   /\ d.message = (IF "msg" \in DOMAIN e THEN e["msg"] ELSE "")
                   /\ d.type = (IF "type" \in DOMAIN e THEN e["type"] ELSE "")

C6_Witness ==
    /\ Done(1)
    /\ Len(errors[1]) = 2
    /\ DOMAIN errors[1][1] = {"loc", "msg", "type"}
    /\ DOMAIN errors[1][2] = {"loc"}
    /\ DetailsOf(1)[1].message = "m2"
    /\ DetailsOf(1)[1].type = "t1"
    /\ DetailsOf(1)[2].message = ""
    /\ DetailsOf(1)[2].type = ""

\* a raw error whose location is missing, empty, null or all-null
NoUsableLoc(e) ==
    \/ "loc" \notin DOMAIN e
    \/ e["loc"] = NoneLoc
    \/ NonNull(e["loc"].items) = <<>>

\* C7: the handler never faults: whatever the locations of the raw errors,
\* missing, empty, null or all-null ones included, it returns the envelope,
\* and the detail of such an error has field "".
C7_NeverFaults ==
    \A r \in Req :
        /\ pc[r] # "fault"
        /\ Done(r) =>
              /\ Len(DetailsOf(r)) = Len(errors[r])
              /\ \A k \in 1..Len(errors[r]) :
                    NoUsableLoc(errors[r][k]) => DetailsOf(r)[k].field = ""

\* C8: the field depends on the location alone: two raw errors with equal
\* location sequences get the same field, whatever their message and type,
\* their position in the batch, the other errors of the batch or the request.
C8_FieldFromLocationOnly ==
    \A r1, r2 \in Req :
        (Done(r1) /\ Done(r2)) =>
            \A k1 \in 1..Len(errors[r1]), k2 \in 1..Len(errors[r2]) :
                LocOf(errors[r1][k1]) = LocOf(errors[r2][k2])
                    => DetailsOf(r1)[k1].field = DetailsOf(r2)[k2].field

C8_Witness ==
    /\ Done(1) /\ Done(2)
    /\ Len(errors[1]) = 2 /\ Len(errors[2]) = 1
    /\ LocOf(errors[1][2]) = <<StrSeg("body"), StrSeg("name")>>
    /\ LocOf(errors[2][1]) = <<StrSeg("body"), StrSeg("name")>>
    /\ errors[1][2] # errors[2][1]
    /\ DetailsOf(1)[2].field = "name"
    /\ DetailsOf(2)[1].field = "name"

\* the envelope the handler returns for a batch when it runs alone
RespondAlone(batch) == JSONResponse([k \in 1..Len(batch) |-> make_detail(batch[k])])

\* C9: requests handled at the same time do not disturb each other: under
\* every interleaving each request gets the envelope it would get alone, and
\* until it returns, the list it is building holds only details of its own
\* batch.
C9_ConcurrentRequestsIndependent ==
    \A r \in Req :
        /\ Done(r) => response[r] = RespondAlone(errors[r])
        /\ pc[r] = "loop" =>
              details[r] = [k \in 1..(i[r] - 1) |-> make_detail(errors[r][k])]

C9_Witness ==
    /\ Done(1) /\ Done(2)
    /\ Len(errors[1]) = 2 /\ Len(errors[2]) = 2
    /\ errors[1] # errors[2]
    /\ response[1] # response[2]
    /\ response[1] = RespondAlone(errors[1])
    /\ response[2] = RespondAlone(errors[2])

====
